---------------------------- MODULE Spec2Model ----------------------------
(***************************************************************************)
(* A model of the DOCX report formatter (src/formatter.py) and of the      *)
(* session handling of its Streamlit front end (src/app.py).               *)
(*                                                                         *)
(* Text is modelled as a sequence of one-character strings, so that        *)
(* prefix tests, slicing and concatenation are those of the code.          *)
(***************************************************************************)
EXTENDS Integers, Sequences, FiniteSets, TLC

VARIABLES
    template,   \* the template string handed to _split_template
    tokens,     \* the list _split_template returned
    tpc,        \* "input" before the call, "split" after it
    mheap,      \* deep_merge: the dict objects, by address
    mA,         \* deep_merge: the address of argument a
    mB,         \* deep_merge: the address of argument b
    mOut,       \* deep_merge: the address of the returned dict (0: none yet)
    mIn,        \* deep_merge: the values of a and b when the call was made
    classDefault, \* the default records held by the class ReportConfig
    session,    \* st.session_state.cfg of the browser session being served
    lastSave,   \* the file downloaded last: the configuration saved and its bytes
    lastLoad,   \* the load_config_json_bytes of the current script run, if any:
                \* the bytes, the mapping read, the result
    formatterCfg,     \* format_docx_bytes: self.cfg, its records by field name
    input_docx_bytes, \* format_docx_bytes: the uploaded file
    doc,        \* format_docx_bytes: the document being formatted
    fpc,        \* format_docx_bytes: the step to run next
    completed,  \* format_docx_bytes: the stages that returned, in order
    caught,     \* format_docx_bytes: the exceptions an except clause of a stage caught
    raised,     \* format_docx_bytes: the exception that left it, if any
    output_bytes \* format_docx_bytes: the bytes returned, if any

tvars == <<template, tokens, tpc>>

mvars == <<mheap, mA, mB, mOut, mIn>>

cvars == <<classDefault, session, lastSave, lastLoad>>

fvars == <<formatterCfg, input_docx_bytes, doc, fpc, completed, caught, raised, output_bytes>>

vars == <<tvars, mvars, cvars, fvars>>

(***************************************************************************)
(* Bounds of the model.                                                    *)
(***************************************************************************)
MaxChunks == 3

MaxDepth == 2

MaxSections == 3

MaxNesting == 2

(***************************************************************************)
(* Generic helpers on sequences.                                           *)
(***************************************************************************)
RECURSIVE Flatten(_)
Flatten(ss) == IF ss = <<>> THEN <<>> ELSE Head(ss) \o Flatten(Tail(ss))

SeqsUpTo(S, n) == UNION {[1..k -> S] : k \in 0..n}

Range(f) == {f[i] : i \in DOMAIN f}

(***************************************************************************)
(* Python values.  A scalar, a list or a dict is its payload tagged with   *)
(* its type; a float holds its value in hundredths.  Inside a heap a dict  *)
(* is held by reference (the tag "ref" on its address).                    *)
(***************************************************************************)
Tagged(tag, payload) == tag :> payload

Tag(x) == CHOOSE k \in DOMAIN x : TRUE

Val(x) == x[Tag(x)]

PyNone == Tagged("none", "None")

PyStr(s) == Tagged("str", s)

PyInt(n) == Tagged("int", n)

PyFloat(h) == Tagged("float", h)

PyBool(b) == Tagged("bool", b)

PyList(xs) == Tagged("list", xs)

PyDict(f) == Tagged("dict", f)

Ref(addr) == Tagged("ref", addr)

IsDict(x) == Tag(x) = "dict"

IsRef(x) == Tag(x) = "ref"

EmptyDict == PyDict(<<>>)

\* the keys of a dict in the order of iteration
RECURSIVE KeySeq(_)
KeySeq(S) ==
    IF S = {} THEN <<>>
    ELSE LET k == CHOOSE x \in S : TRUE IN <<k>> \o KeySeq(S \ {k})

\* d[k] = x on the dict object at address o
SetItem(h, o, k, x) ==
    [h EXCEPT ![o] = [y \in DOMAIN h[o] \cup {k} |-> IF y = k THEN x ELSE h[o][y]]]

\* builds the value x in the heap h: the heap and what refers to x in it
RECURSIVE Store(_, _)
RECURSIVE StoreItems(_, _, _, _)
Store(h, x) ==
    IF IsDict(x)
    THEN LET o == Len(h) + 1
         IN  StoreItems(Append(h, <<>>), o, Val(x), KeySeq(DOMAIN Val(x)))
    ELSE [heap |-> h, val |-> x]

StoreItems(h, o, f, ks) ==
    IF ks = <<>> \/ o \notin DOMAIN h THEN [heap |-> h, val |-> Ref(o)]
    ELSE LET s == Store(h, f[Head(ks)])
         IN  StoreItems(SetItem(s.heap, o, Head(ks), s.val), o, f, Tail(ks))

\* the value a heap entry stands for
RECURSIVE Load(_, _)
Load(h, x) ==
    IF IsRef(x)
    THEN PyDict([k \in DOMAIN h[Val(x)] |-> Load(h, h[Val(x)][k])])
    ELSE x

(***************************************************************************)
(* deep_merge (formatter.py 130-137), on the heap: out = dict(a) is a new  *)
(* object, out[k] = v stores the reference to b's value.                   *)
(***************************************************************************)
\* out = a: the result is the argument itself
AliasDict(h, a) == [heap |-> h, ref |-> a]

\* out = dict(a)
CopyDict(h, a) == [heap |-> Append(h, h[a]), ref |-> Len(h) + 1]

\* (b or {}).items(): the keys of b, none when b is falsy
ItemKeys(h, b) ==
    IF IsRef(b) THEN KeySeq(DOMAIN h[Val(b)]) ELSE <<>>

RECURSIVE DeepMerge(_, _, _)
RECURSIVE MergeItems(_, _, _, _)
DeepMerge(h, a, b) ==
    LET c == CopyDict(h, a)
    IN  MergeItems(c.heap, c.ref, b, ItemKeys(c.heap, b))

\* the for loop over the items of b that are left, ks
MergeItems(h, out, b, ks) ==
    IF ks = <<>> THEN [heap |-> h, ref |-> out]
    ELSE LET k == Head(ks)
             x == h[Val(b)][k]
         IN  IF IsRef(x) /\ k \in DOMAIN h[out] /\ IsRef(h[out][k])
             THEN LET r == DeepMerge(h, Val(h[out][k]), x)
                  IN  MergeItems(SetItem(r.heap, out, k, Ref(r.ref)), out, b, Tail(ks))
             ELSE MergeItems(SetItem(h, out, k, x), out, b, Tail(ks))

(***************************************************************************)
(* Inputs of deep_merge: dicts over two keys, nested to MaxDepth levels.   *)
(* The first key holds a scalar, a list or a nested dict, the second a     *)
(* scalar or a list; either may be absent.                                 *)
(***************************************************************************)
MergeLeaves == {PyStr("u"), PyStr("w"), PyList(<<PyInt(1)>>)}

Entry(k, x) == [key |-> k, val |-> x]

DictOf(es) == PyDict([k \in {e.key : e \in es} |-> (CHOOSE e \in es : e.key = k).val])

RECURSIVE MergeDicts(_)
MergeDicts(depth) ==
    LET inner == IF depth <= 1 THEN {} ELSE MergeDicts(depth - 1)
        first == {{}} \cup {{Entry("k1", x)} : x \in MergeLeaves \cup inner}
        second == {{}} \cup {{Entry("k2", x)} : x \in MergeLeaves}
    IN  {DictOf(e1 \cup e2) : e1 \in first, e2 \in second}

\* the call deep_merge(a, b)
Merge ==
    /\ mOut = 0
    /\ mA # 0
    /\ LET r == DeepMerge(mheap, mA, Ref(mB))
       IN  /\ mheap' = r.heap
           /\ mOut' = r.ref
    /\ UNCHANGED <<mA, mB, mIn, tvars, cvars, fvars>>

(***************************************************************************)
(* The configuration records (formatter.py 39-102).  Lengths and sizes     *)
(* are floats, held in hundredths.                                         *)
(***************************************************************************)
StyleConfig ==
    [ font_name            |-> PyStr("Times New Roman"),
      font_size_pt         |-> PyFloat(1300),
      bold                 |-> PyBool(FALSE),
      italic               |-> PyBool(FALSE),
      color_hex            |-> PyNone,
      line_spacing         |-> PyFloat(150),
      space_before_pt      |-> PyFloat(0),
      space_after_pt       |-> PyFloat(600),
      first_line_indent_cm |-> PyFloat(100),
      alignment            |-> PyStr("JUSTIFY"),
      keep_with_next       |-> PyBool(FALSE),
      page_break_before    |-> PyBool(FALSE) ]

PageSetupConfig ==
    [ paper                |-> PyStr("A4_PORTRAIT"),
      margin_left_cm       |-> PyFloat(350),
      margin_right_cm      |-> PyFloat(200),
      margin_top_cm        |-> PyFloat(200),
      margin_bottom_cm     |-> PyFloat(200),
      header_distance_cm   |-> PyFloat(125),
      footer_distance_cm   |-> PyFloat(125),
      different_first_page |-> PyBool(FALSE) ]

PageNumberConfig ==
    [ enabled              |-> PyBool(TRUE),
      position             |-> PyStr("FOOTER_CENTER"),
      template             |-> PyStr("Trang {PAGE}/{NUMPAGES}"),
      start_at             |-> PyInt(1),
      restart_each_section |-> PyBool(FALSE),
      number_format        |-> PyStr("DECIMAL"),
      font_name            |-> PyStr("Times New Roman"),
      font_size_pt         |-> PyFloat(1100) ]

\* the title is written here without its diacritics
TocConfig ==
    [ insert_toc         |-> PyBool(FALSE),
      heading_levels     |-> PyStr("1-3"),
      title              |-> PyStr("MUC LUC"),
      title_bold         |-> PyBool(TRUE),
      title_font_size_pt |-> PyFloat(1400),
      title_alignment    |-> PyStr("CENTER") ]

ProcessingConfig ==
    [ force_run_font_everywhere         |-> PyBool(TRUE),
      force_paragraph_format_everywhere |-> PyBool(TRUE),
      include_tables                    |-> PyBool(TRUE) ]

\* f with the entries of g put over it
Over(f, g) ==
    [k \in DOMAIN f \cup DOMAIN g |-> IF k \in DOMAIN g THEN g[k] ELSE f[k]]

\* Cls(**kwargs): a dataclass constructor called with keywords; an
\* argument that is no mapping, or a keyword that is no field, is a TypeError
Construct(fields, kwargs) ==
    IF IsDict(kwargs) /\ DOMAIN Val(kwargs) \subseteq DOMAIN fields
    THEN [ok |-> TRUE, obj |-> Over(fields, Val(kwargs))]
    ELSE [ok |-> FALSE]

\* the default values of the fields of ReportConfig, as the class
\* statement evaluates them once (lines 93-102)
ReportConfigDefaults ==
    [ normal    |-> StyleConfig,
      title     |-> Over(StyleConfig,
                     [ font_size_pt |-> PyFloat(1600), bold |-> PyBool(TRUE),
                       alignment |-> PyStr("CENTER"),
                       space_after_pt |-> PyFloat(1200),
                       first_line_indent_cm |-> PyFloat(0),
                       line_spacing |-> PyFloat(120) ]),
      heading1  |-> Over(StyleConfig,
                     [ font_size_pt |-> PyFloat(1400), bold |-> PyBool(TRUE),
                       alignment |-> PyStr("LEFT"),
                       space_before_pt |-> PyFloat(1200),
                       space_after_pt |-> PyFloat(600),
                       first_line_indent_cm |-> PyFloat(0),
                       line_spacing |-> PyFloat(120),
                       keep_with_next |-> PyBool(TRUE) ]),
      heading2  |-> Over(StyleConfig,
                     [ font_size_pt |-> PyFloat(1300), bold |-> PyBool(TRUE),
                       alignment |-> PyStr("LEFT"),
                       space_before_pt |-> PyFloat(1000),
                       space_after_pt |-> PyFloat(400),
                       first_line_indent_cm |-> PyFloat(0),
                       line_spacing |-> PyFloat(120),
                       keep_with_next |-> PyBool(TRUE) ]),
      heading3  |-> Over(StyleConfig,
                     [ font_size_pt |-> PyFloat(1300), bold |-> PyBool(TRUE),
                       italic |-> PyBool(TRUE),
                       alignment |-> PyStr("LEFT"),
                       space_before_pt |-> PyFloat(800),
                       space_after_pt |-> PyFloat(400),
                       first_line_indent_cm |-> PyFloat(0),
                       line_spacing |-> PyFloat(120),
                       keep_with_next |-> PyBool(TRUE) ]),
      caption   |-> Over(StyleConfig,
                     [ font_size_pt |-> PyFloat(1100), italic |-> PyBool(TRUE),
                       alignment |-> PyStr("CENTER"),
                       space_before_pt |-> PyFloat(600),
                       space_after_pt |-> PyFloat(600),
                       first_line_indent_cm |-> PyFloat(0),
                       line_spacing |-> PyFloat(100) ]),
      pagesetup  |-> PageSetupConfig,
      pagenumber |-> PageNumberConfig,
      toc        |-> TocConfig,
      processing |-> ProcessingConfig ]

RecordNames == DOMAIN ReportConfigDefaults

StyleNames == {"normal", "title", "heading1", "heading2", "heading3", "caption"}

\* the fields of the record class behind each field of ReportConfig
FieldsOf(n) ==
    IF n \in StyleNames THEN StyleConfig
    ELSE IF n = "pagesetup" THEN PageSetupConfig
    ELSE IF n = "pagenumber" THEN PageNumberConfig
    ELSE IF n = "toc" THEN TocConfig
    ELSE ProcessingConfig

(***************************************************************************)
(* A ReportConfig object holds, per field, a reference: to the record the  *)
(* class holds as the field's default (a dataclass default is one object,  *)
(* the same for every instance that was not given the field), or to a      *)
(* record of its own.  (This is the class statement as Python up to 3.10   *)
(* runs it; from 3.11 on dataclass refuses these defaults with a           *)
(* ValueError and the module cannot be imported.)                          *)
(***************************************************************************)
ClassRecord == [ref |-> "class"]

OwnRecord(obj) == [ref |-> "own", obj |-> obj]

\* ReportConfig(): no field given
NewReportConfig == [n \in RecordNames |-> ClassRecord]

\* cfg.<n>: the record the field refers to
Attr(cd, cfg, n) == IF cfg[n].ref = "class" THEN cd[n] ELSE cfg[n].obj

\* cfg_to_dict: asdict copies every record into a dict
CfgToDict(cd, cfg) == PyDict([n \in RecordNames |-> PyDict(Attr(cd, cfg, n))])

\* bool(x) is False
Falsy(x) ==
    \/ Tag(x) = "none"
    \/ Tag(x) = "bool" /\ ~Val(x)
    \/ Tag(x) \in {"int", "float"} /\ Val(x) = 0
    \/ Tag(x) = "str" /\ Val(x) = ""
    \/ Tag(x) = "list" /\ Val(x) = <<>>
    \/ Tag(x) = "dict" /\ DOMAIN Val(x) = {}

\* deep_merge(a, b) on values: the arguments are built, merged, and the
\* result read
MergeValues(a, b) ==
    LET sa == Store(<<>>, a)
        sb == Store(sa.heap, b)
        r == DeepMerge(sb.heap, Val(sa.val), sb.val)
    IN  Load(r.heap, Ref(r.ref))

\* A construction that takes the caption from heading3's entry.
BuildReportConfigSlip(merged) ==
    LET rec(n) == Construct(FieldsOf(n), Val(merged)[IF n = "caption" THEN "heading3" ELSE n])
    IN  IF \A n \in RecordNames : rec(n).ok
        THEN [ok |-> TRUE, cfg |-> [n \in RecordNames |-> OwnRecord(rec(n).obj)]]
        ELSE [ok |-> FALSE]

\* lines 111-128: every record is constructed from its entry of merged
BuildReportConfig(merged) ==
    LET rec(n) == Construct(FieldsOf(n), Val(merged)[n])
    IN  IF \A n \in RecordNames : rec(n).ok
        THEN [ok |-> TRUE, cfg |-> [n \in RecordNames |-> OwnRecord(rec(n).obj)]]
        ELSE [ok |-> FALSE]

\* cfg_from_dict; (b or {}).items() is an AttributeError on a truthy d that
\* is no dict
CfgFromDict(cd, d) ==
    IF ~Falsy(d) /\ ~IsDict(d) THEN [ok |-> FALSE]
    ELSE BuildReportConfig(MergeValues(CfgToDict(cd, NewReportConfig), d))

(***************************************************************************)
(* JSON text.  A number is held as its characters, so that json.dumps      *)
(* writes an int as digits and a float as repr does, and json.loads reads  *)
(* a number with a fraction as a float and one without as an int.          *)
(***************************************************************************)
DigitChars == <<"0", "1", "2", "3", "4", "5", "6", "7", "8", "9">>

DigitValue(c) == (CHOOSE i \in 1..Len(DigitChars) : DigitChars[i] = c) - 1

RECURSIVE NatText(_)
NatText(n) ==
    IF n < Len(DigitChars) THEN <<DigitChars[n + 1]>>
    ELSE NatText(n \div Len(DigitChars)) \o <<DigitChars[(n % Len(DigitChars)) + 1]>>

RECURSIVE TextNat(_)
TextNat(cs) ==
    IF Len(cs) = 1 THEN DigitValue(cs[1])
    ELSE TextNat(SubSeq(cs, 1, Len(cs) - 1)) * Len(DigitChars) + DigitValue(cs[Len(cs)])

Hundred == Len(DigitChars) * Len(DigitChars)

\* repr of a float of h hundredths: at least one digit after the point,
\* no trailing zero beyond it
FloatText(h) ==
    LET frac == h % Hundred
        tail == IF frac % Len(DigitChars) = 0
                THEN <<DigitChars[(frac \div Len(DigitChars)) + 1]>>
                ELSE <<DigitChars[(frac \div Len(DigitChars)) + 1],
                       DigitChars[(frac % Len(DigitChars)) + 1]>>
    IN  NatText(h \div Hundred) \o <<".">> \o tail

PointAt(cs) == CHOOSE i \in 1..Len(cs) : cs[i] = "."

\* float(text), in hundredths, of a text with one or two digits after the point
TextFloat(cs) ==
    LET p == PointAt(cs)
        whole == TextNat(SubSeq(cs, 1, p - 1))
        fr == SubSeq(cs, p + 1, Len(cs))
    IN  whole * Hundred
          + (IF Len(fr) = 1 THEN DigitValue(fr[1]) * Len(DigitChars) ELSE TextNat(fr))

Json(kind, payload) == Tagged(kind, payload)

InvalidJson == Json("invalid", "{")

RECURSIVE JsonDumps(_)
JsonDumps(x) ==
    CASE Tag(x) = "none"  -> Json("null", "null")
      [] Tag(x) = "bool"  -> IF Val(x) THEN Json("true", "true") ELSE Json("false", "false")
      [] Tag(x) = "int"   -> Json("number", NatText(Val(x)))
      [] Tag(x) = "float" -> Json("number", FloatText(Val(x)))
      [] Tag(x) = "str"   -> Json("string", Val(x))
      [] Tag(x) = "list"  -> Json("array", [i \in DOMAIN Val(x) |-> JsonDumps(Val(x)[i])])
      [] Tag(x) = "dict"  -> Json("object", [k \in DOMAIN Val(x) |-> JsonDumps(Val(x)[k])])

RECURSIVE JsonLoads(_)
JsonLoads(j) ==
    CASE Tag(j) = "null"   -> PyNone
      [] Tag(j) = "true"   -> PyBool(TRUE)
      [] Tag(j) = "false"  -> PyBool(FALSE)
      [] Tag(j) = "number" -> IF \E i \in 1..Len(Val(j)) : Val(j)[i] = "."
                           THEN PyFloat(TextFloat(Val(j)))
                           ELSE PyInt(TextNat(Val(j)))
      [] Tag(j) = "string" -> PyStr(Val(j))
      [] Tag(j) = "array"  -> PyList([i \in DOMAIN Val(j) |-> JsonLoads(Val(j)[i])])
      [] Tag(j) = "object" -> PyDict([k \in DOMAIN Val(j) |-> JsonLoads(Val(j)[k])])

\* save_config_json_bytes
SaveConfigJsonBytes(cd, cfg) == JsonDumps(CfgToDict(cd, cfg))

\* load_config_json_bytes: json.loads raises on text that is no JSON
LoadConfigJsonBytes(cd, data) ==
    IF data = InvalidJson THEN [ok |-> FALSE, d |-> PyNone]
    ELSE LET d == JsonLoads(data)
             r == CfgFromDict(cd, d)
         IN  IF r.ok THEN [ok |-> TRUE, d |-> d, cfg |-> r.cfg]
             ELSE [ok |-> FALSE, d |-> d]

(***************************************************************************)
(* The front end (app.py): a browser session starts with ReportConfig(),   *)
(* the sidebar assigns to fields of its records in place, a JSON file may  *)
(* be imported and the current configuration downloaded.                   *)
(***************************************************************************)
\* what the sidebar widgets assign: <<record, field, value>>
Edits ==
    { <<"pagesetup", "paper", PyStr("A4_PORTRAIT")>>,
      <<"pagesetup", "paper", PyStr("A4_LANDSCAPE")>>,
      <<"normal", "font_name", PyStr("Times New Roman")>>,
      <<"normal", "font_name", PyStr("Arial")>> }

\* the partial configurations a user uploads: records and fields left out
PartialUploads ==
    { EmptyDict,
      PyDict([pagesetup |-> PyDict([paper |-> PyStr("A4_LANDSCAPE")])]),
      PyDict([normal |-> PyDict([color_hex |-> PyStr("FF0000"),
                                 font_size_pt |-> PyFloat(1250)]),
              pagenumber |-> PyDict([start_at |-> PyInt(3)]),
              caption |-> EmptyDict]) }

\* other JSON values a user uploads: a key that is no field of
\* ReportConfig, a key that is no field of StyleConfig, null
OtherUploads ==
    { PyDict([extra |-> PyDict([x |-> PyInt(1)])]),
      PyDict([normal |-> PyDict([colour |-> PyStr("FF0000")])]),
      PyNone }

Uploads == {JsonDumps(d) : d \in PartialUploads \cup OtherUploads} \cup {InvalidJson}

NotDone == [done |-> FALSE]

\* app.py 17-18: a new browser session
NewSession ==
    /\ session' = NewReportConfig
    /\ lastLoad' = NotDone
    /\ UNCHANGED <<classDefault, lastSave, tvars, mvars, fvars>>

\* app.py 48-58, 63-79, 96-125: cfg.<n>.<f> = value, on the record cfg.<n>
\* refers to
Edit ==
    \E e \in Edits :
        LET n == e[1]
            f == e[2]
        IN  /\ Attr(classDefault, session, n)[f] # e[3]
            /\ IF session[n].ref = "class"
               THEN /\ classDefault' = [classDefault EXCEPT ![n][f] = e[3]]
                    /\ UNCHANGED session
               ELSE /\ session' = [session EXCEPT ![n].obj[f] = e[3]]
                    /\ UNCHANGED classDefault
            /\ lastLoad' = NotDone
            /\ UNCHANGED <<lastSave, tvars, mvars, fvars>>

\* app.py 37-42: the download of save_config_json_bytes(cfg)
Export ==
    /\ lastSave' = [ done |-> TRUE,
                     src  |-> CfgToDict(classDefault, session),
                     data |-> SaveConfigJsonBytes(classDefault, session) ]
    /\ lastLoad' = NotDone
    /\ UNCHANGED <<classDefault, session, tvars, mvars, fvars>>

\* app.py 28-35: the import of an uploaded file, one the user wrote or the
\* one downloaded last; on an exception the configuration stays
Import ==
    \E data \in Uploads \cup (IF lastSave.done THEN {lastSave.data} ELSE {}) :
        LET r == LoadConfigJsonBytes(classDefault, data)
        IN  /\ lastLoad' = [ done |-> TRUE, data |-> data, d |-> r.d, ok |-> r.ok,
                             value |-> IF r.ok THEN CfgToDict(classDefault, r.cfg)
                                       ELSE PyNone ]
            /\ session' = IF r.ok THEN r.cfg ELSE session
            /\ UNCHANGED <<classDefault, lastSave, tvars, mvars, fvars>>

(***************************************************************************)
(* DocxReportFormatter._split_template                                     *)
(***************************************************************************)
PAGE == <<"{", "P", "A", "G", "E", "}">>

NUMPAGES == <<"{", "N", "U", "M", "P", "A", "G", "E", "S", "}">>

\* str.startswith(lit, i) with the 1-based position i
StartsWith(s, lit, i) ==
    /\ i + Len(lit) - 1 <= Len(s)
    /\ SubSeq(s, i, i + Len(lit) - 1) = lit

\* A literal scan that forgets the second placeholder.
RECURSIVE LiteralEndPageOnly(_, _)
LiteralEndPageOnly(t, j) ==
    IF j <= Len(t) /\ ~StartsWith(t, PAGE, j)
    THEN LiteralEndPageOnly(t, j + 1)
    ELSE j

\* A literal scan that breaks a literal at every opening brace.
RECURSIVE ScanToBrace(_, _)
ScanToBrace(t, k) ==
    IF k <= Len(t) /\ t[k] # "{" THEN ScanToBrace(t, k + 1) ELSE k

LiteralEndAtBrace(t, j) == ScanToBrace(t, j + 1)

\* the inner while loop: the first position j >= i at which the template
\* ends or a placeholder starts
RECURSIVE LiteralEnd(_, _)
LiteralEnd(t, j) ==
    IF j <= Len(t) /\ ~StartsWith(t, PAGE, j) /\ ~StartsWith(t, NUMPAGES, j)
    THEN LiteralEnd(t, j + 1)
    ELSE j

\* the outer while loop from position i with the tokens collected so far
RECURSIVE SplitFrom(_, _, _)
SplitFrom(t, i, toks) ==
    IF i > Len(t) THEN toks
    ELSE IF StartsWith(t, PAGE, i)
         THEN SplitFrom(t, i + Len(PAGE), Append(toks, PAGE))
    ELSE IF StartsWith(t, NUMPAGES, i)
         THEN SplitFrom(t, i + Len(NUMPAGES), Append(toks, NUMPAGES))
    ELSE LET j == LiteralEnd(t, i)
         IN  SplitFrom(t, j, Append(toks, SubSeq(t, i, j - 1)))

SplitTemplate(t) == SplitFrom(t, 1, <<>>)

(***************************************************************************)
(* Template inputs: every concatenation of at most MaxChunks chunks, the   *)
(* default template of PageNumberConfig and the template of the spec's     *)
(* example.  The chunks hold whole placeholders, halves of placeholders    *)
(* (so that a placeholder can arise across a chunk boundary), lone braces  *)
(* and plain text.                                                         *)
(***************************************************************************)
Chunks ==
    { PAGE, NUMPAGES,
      <<"{">>, <<"}">>,
      <<"{", "P", "A", "G", "E">>, <<"P", "A", "G", "E", "}">>,
      <<"{", "N", "U", "M">>, <<"P", "A", "G", "E", "S", "}">>,
      <<"a">>, <<" ">> }

DefaultTemplate ==
    <<"T", "r", "a", "n", "g", " ">> \o PAGE \o <<"/">> \o NUMPAGES

ExampleTemplate ==
    <<"P", "a", "g", "e", " ">> \o PAGE \o <<" ", "o", "f", " ">> \o NUMPAGES
        \o <<" ", "-", " ", "e", "n", "d">>

Templates ==
    {Flatten(cs) : cs \in SeqsUpTo(Chunks, MaxChunks)}
        \cup {DefaultTemplate, ExampleTemplate}

\* _apply_page_numbers line 362: the call _split_template(pn.template)
Split ==
    /\ tpc = "input"
    /\ tokens' = SplitTemplate(template)
    /\ tpc' = "split"
    /\ UNCHANGED <<template, mvars, cvars, fvars>>

(***************************************************************************)
(* Text of configuration values and style names.  The code tests           *)
(* prefixes, splits, and changes the case of these strings, so each is     *)
(* given by its characters.                                                *)
(***************************************************************************)
Chars ==
     "" :> <<>>
  @@ "Trang {PAGE}/{NUMPAGES}" :> DefaultTemplate
  @@ "{PAGE}" :> PAGE
  @@ "FF0000" :> <<"F", "F", "0", "0", "0", "0">>
  @@ "not-a-color" :> <<"n", "o", "t", "-", "a", "-", "c", "o", "l", "o", "r">>
  @@ "FOOTER_CENTER" :> <<"F", "O", "O", "T", "E", "R", "_", "C", "E", "N", "T", "E", "R">>
  @@ "HEADER_LEFT" :> <<"H", "E", "A", "D", "E", "R", "_", "L", "E", "F", "T">>
  @@ "FOOTER_MIDDLE" :> <<"F", "O", "O", "T", "E", "R", "_", "M", "I", "D", "D", "L", "E">>
  @@ "BOTTOM" :> <<"B", "O", "T", "T", "O", "M">>
  @@ "FOOTER" :> <<"F", "O", "O", "T", "E", "R">>
  @@ "FOOTER_RIGHT" :> <<"F", "O", "O", "T", "E", "R", "_", "R", "I", "G", "H", "T">>
  @@ "_" :> <<"_">>
  @@ "LEFT" :> <<"L", "E", "F", "T">>
  @@ "CENTER" :> <<"C", "E", "N", "T", "E", "R">>
  @@ "RIGHT" :> <<"R", "I", "G", "H", "T">>
  @@ "JUSTIFY" :> <<"J", "U", "S", "T", "I", "F", "Y">>
  @@ "center" :> <<"c", "e", "n", "t", "e", "r">>
  @@ "DECIMAL" :> <<"D", "E", "C", "I", "M", "A", "L">>
  @@ "ROMAN_UPPER" :> <<"R", "O", "M", "A", "N", "_", "U", "P", "P", "E", "R">>
  @@ "ROMAN_LOWER" :> <<"R", "O", "M", "A", "N", "_", "L", "O", "W", "E", "R">>
  @@ "LETTER_UPPER" :> <<"L", "E", "T", "T", "E", "R", "_", "U", "P", "P", "E", "R">>
  @@ "LETTER_LOWER" :> <<"L", "E", "T", "T", "E", "R", "_", "L", "O", "W", "E", "R">>
  @@ "roman_upper" :> <<"r", "o", "m", "a", "n", "_", "u", "p", "p", "e", "r">>
  @@ "Normal" :> <<"N", "o", "r", "m", "a", "l">>
  @@ "Title" :> <<"T", "i", "t", "l", "e">>
  @@ "Heading 1" :> <<"H", "e", "a", "d", "i", "n", "g", " ", "1">>
  @@ "Heading 2" :> <<"H", "e", "a", "d", "i", "n", "g", " ", "2">>
  @@ "Heading 3" :> <<"H", "e", "a", "d", "i", "n", "g", " ", "3">>
  @@ "Caption" :> <<"C", "a", "p", "t", "i", "o", "n">>
  @@ "Heading 10" :> <<"H", "e", "a", "d", "i", "n", "g", " ", "1", "0">>
  @@ "Subtitle" :> <<"S", "u", "b", "t", "i", "t", "l", "e">>
  @@ "heading 1" :> <<"h", "e", "a", "d", "i", "n", "g", " ", "1">>
  @@ "heading 2" :> <<"h", "e", "a", "d", "i", "n", "g", " ", "2">>
  @@ "heading 3" :> <<"h", "e", "a", "d", "i", "n", "g", " ", "3">>
  @@ "title" :> <<"t", "i", "t", "l", "e">>
  @@ "caption" :> <<"c", "a", "p", "t", "i", "o", "n">>
  @@ "MIDDLE" :> <<"M", "I", "D", "D", "L", "E">>
  @@ "HEADING 2" :>
        <<"H", "E", "A", "D", "I", "N", "G", " ", "2">>
  @@ "Table Caption" :>
        <<"T", "a", "b", "l", "e", " ", "C", "a", "p", "t", "i", "o", "n">>
  @@ "TITLE" :>
        <<"T", "I", "T", "L", "E">>
  @@ "Title Page" :>
        <<"T", "i", "t", "l", "e", " ", "P", "a", "g", "e">>
  @@ "Heading 1 Caption" :>
        <<"H", "e", "a", "d", "i", "n", "g", " ", "1", " ", "C", "a", "p", "t", "i", "o", "n">>
  @@ "Caption Heading 3" :>
        <<"C", "a", "p", "t", "i", "o", "n", " ", "H", "e", "a", "d", "i", "n", "g", " ", "3">>
  @@ "heading 2 heading 1" :>
        <<"h", "e", "a", "d", "i", "n", "g", " ", "2", " ", "h", "e", "a", "d", "i", "n", "g", " ", "1">>
  @@ "List Paragraph" :>
        <<"L", "i", "s", "t", " ", "P", "a", "r", "a", "g", "r", "a", "p", "h">>

Lowers ==
    <<"a", "b", "c", "d", "e", "f", "g", "h", "i", "j", "k", "l", "m",
      "n", "o", "p", "q", "r", "s", "t", "u", "v", "w", "x", "y", "z">>

Uppers ==
    <<"A", "B", "C", "D", "E", "F", "G", "H", "I", "J", "K", "L", "M",
      "N", "O", "P", "Q", "R", "S", "T", "U", "V", "W", "X", "Y", "Z">>

\* the letter at the place of c in the other alphabet, c itself if it is
\* no letter of the first
Recase(c, from, to) ==
    IF \E i \in DOMAIN from : from[i] = c
    THEN to[CHOOSE i \in DOMAIN from : from[i] = c]
    ELSE c

\* str.upper()
Upper(cs) == [i \in DOMAIN cs |-> Recase(cs[i], Lowers, Uppers)]

\* str.lower()
Lower(cs) == [i \in DOMAIN cs |-> Recase(cs[i], Uppers, Lowers)]

\* lit in s
Contains(s, lit) == \E i \in 1..(Len(s) + 1) : StartsWith(s, lit, i)

\* s.split(sep, 1) for a separator of one character
SplitOnce(cs, sep) ==
    IF \E i \in DOMAIN cs : cs[i] = sep
    THEN LET i == CHOOSE j \in DOMAIN cs : cs[j] = sep /\ \A k \in 1..(j - 1) : cs[k] # sep
         IN  <<SubSeq(cs, 1, i - 1), SubSeq(cs, i + 1, Len(cs))>>
    ELSE <<cs>>

\* map.get(key, default) for a map with string keys and the key given by
\* its characters
MapGet(map, key, default) ==
    IF \E s \in DOMAIN map : Chars[s] = key
    THEN map[CHOOSE s \in DOMAIN map : Chars[s] = key]
    ELSE default

\* lines 14-19, by the value the enumeration member writes
ALIGN_MAP ==
    [LEFT |-> "left", CENTER |-> "center", RIGHT |-> "right", JUSTIFY |-> "both"]

\* lines 21-27
PAGE_FMT_MAP ==
    [ DECIMAL |-> "decimal", ROMAN_UPPER |-> "upperRoman",
      ROMAN_LOWER |-> "lowerRoman", LETTER_UPPER |-> "upperLetter",
      LETTER_LOWER |-> "lowerLetter" ]

\* lines 34-37, in hundredths of a centimetre
PAPER_PRESET ==
    [ A4_PORTRAIT  |-> [width_cm |-> PyFloat(2100), height_cm |-> PyFloat(2970)],
      A4_LANDSCAPE |-> [width_cm |-> PyFloat(2970), height_cm |-> PyFloat(2100)] ]

(***************************************************************************)
(* Lengths (docx.shared).  Cm(x) and Pt(x) are int(x * 360000) and         *)
(* int(x * 12700) English Metric Units; on a value that is no number the   *)
(* multiplication or the int() raises.                                     *)
(***************************************************************************)
IsNumber(x) == Tag(x) \in {"int", "float", "bool"}

\* the number x in hundredths
Hundredths(x) ==
    CASE Tag(x) = "int"   -> Val(x) * Hundred
      [] Tag(x) = "float" -> Val(x)
      [] Tag(x) = "bool"  -> IF Val(x) THEN Hundred ELSE 0

Cm(x) == (Hundredths(x) * 360000) \div Hundred

Pt(x) == (Hundredths(x) * 12700) \div Hundred

\* what Cm(x) or Pt(x) raises on an x that is no number
LengthError(x) == IF Tag(x) = "str" THEN "ValueError" ELSE "TypeError"

\* the outcome of a stage or of a step of one: it returned with the
\* document (or the part of it) in the state obj, having caught the
\* exceptions swallowed, or it raised exc
Returns(obj, swallowed) == [ok |-> TRUE, obj |-> obj, caught |-> swallowed]

Raises(exc) == [ok |-> FALSE, exc |-> exc]

(***************************************************************************)
(* The document (python-docx).  A paragraph holds its style name, its      *)
(* direct paragraph format and its children in order: runs and simple      *)
(* fields.  An attribute that may be absent is <<>> or <<value>>.  A run's *)
(* font is the four script slots of its rFonts element.  A table holds     *)
(* rows of cells; a cell holds paragraphs and tables of its own.           *)
(***************************************************************************)
NoStyle == "None"

NoFormat ==
    [ line_spacing |-> <<>>, space_before |-> <<>>, space_after |-> <<>>,
      first_line_indent |-> <<>>, alignment |-> <<>>,
      keep_with_next |-> <<>>, page_break_before |-> <<>> ]

NoFont == [ascii |-> PyNone, hAnsi |-> PyNone, eastAsia |-> PyNone, cs |-> PyNone]

Run(text, font, size) ==
    [kind |-> "r", text |-> text, instr |-> "", font |-> font, size |-> size]

\* hf.add_paragraph() and what _clear_paragraph leaves: a paragraph without
\* children, its properties element removed with them
EmptyParagraph == [style |-> NoStyle, pf |-> NoFormat, items |-> <<>>]

\* p.runs: the run children
Runs(p) == SelectSeq(p.items, LAMBDA it : it.kind = "r")

\* lines 184-192: a w:fldSimple with the instruction, showing "1"
AddSimpleField(paragraph, instr) ==
    [paragraph EXCEPT !.items =
        Append(@, [kind |-> "fldSimple", text |-> <<"1">>, instr |-> instr,
                   font |-> NoFont, size |-> <<>>])]

\* a clearing that removes the properties element only
ClearProperties(paragraph) == [paragraph EXCEPT !.style = NoStyle, !.pf = NoFormat]

\* lines 194-197: every child of w:p is removed, w:pPr among them
ClearParagraph(paragraph) == EmptyParagraph

\* font.name = x writes the ascii and hAnsi slots (None removes them)
SetFontName(font, x) == [font EXCEPT !.ascii = x, !.hAnsi = x]

\* the try blocks of lines 311-318 and 371-378: rFonts.set(slot, name) for
\* the four slots; lxml raises TypeError on a name that is no string, at
\* the first slot, and the except clause swallows it
TrySetAllSlots(font, x) ==
    IF Tag(x) = "str"
    THEN Returns([ascii |-> x, hAnsi |-> x, eastAsia |-> x, cs |-> x], {})
    ELSE Returns(font, {"TypeError"})

(***************************************************************************)
(* Stage 1: _apply_page_setup (lines 232-244).                             *)
(***************************************************************************)
LengthFields ==
    << "margin_left_cm", "margin_right_cm", "margin_top_cm", "margin_bottom_cm",
       "header_distance_cm", "footer_distance_cm" >>

ApplyPageSetup(cfg, d) ==
    LET ps == cfg.pagesetup
        paper == IF Tag(ps.paper) = "str" /\ Val(ps.paper) \in DOMAIN PAPER_PRESET
                 THEN PAPER_PRESET[Val(ps.paper)]
                 ELSE PAPER_PRESET["A4_PORTRAIT"]
        bad == SelectSeq(LengthFields, LAMBDA f : ~IsNumber(ps[f]))
        page == [ page_width      |-> Cm(paper.width_cm),
                  page_height     |-> Cm(paper.height_cm),
                  left_margin     |-> Cm(ps.margin_left_cm),
                  right_margin    |-> Cm(ps.margin_right_cm),
                  top_margin      |-> Cm(ps.margin_top_cm),
                  bottom_margin   |-> Cm(ps.margin_bottom_cm),
                  header_distance |-> Cm(ps.header_distance_cm),
                  footer_distance |-> Cm(ps.footer_distance_cm),
                  different_first_page_header_footer |-> ~Falsy(ps.different_first_page) ]
        secs == d.sections
    IN  IF secs = <<>> THEN Returns(d, {})
        ELSE IF bad # <<>> THEN Raises(LengthError(ps[Head(bad)]))
        ELSE Returns([d EXCEPT !.sections =
                         [i \in DOMAIN secs |-> [secs[i] EXCEPT !.page = <<page>>]]], {})

(***************************************************************************)
(* Stage 2: _apply_styles (lines 246-256) with _set_font_all_scripts and   *)
(* _apply_style_to_docx_style (lines 146-172).                             *)
(***************************************************************************)
\* lines 166-172 and 280-286: the paragraph format a StyleConfig gives
ParagraphFormatOf(scfg) ==
    IF Tag(scfg.line_spacing) # "none" /\ ~IsNumber(scfg.line_spacing)
    THEN Raises(LengthError(scfg.line_spacing))
    ELSE IF ~IsNumber(scfg.space_before_pt) THEN Raises(LengthError(scfg.space_before_pt))
    ELSE IF ~IsNumber(scfg.space_after_pt) THEN Raises(LengthError(scfg.space_after_pt))
    ELSE IF ~Falsy(scfg.first_line_indent_cm) /\ ~IsNumber(scfg.first_line_indent_cm)
    THEN Raises(LengthError(scfg.first_line_indent_cm))
    ELSE IF Tag(scfg.alignment) # "str" THEN Raises("AttributeError")
    ELSE Returns(
        [ line_spacing      |-> IF Tag(scfg.line_spacing) = "none" THEN <<>>
                                ELSE <<Hundredths(scfg.line_spacing)>>,
          space_before      |-> <<Pt(scfg.space_before_pt)>>,
          space_after       |-> <<Pt(scfg.space_after_pt)>>,
          first_line_indent |-> IF Falsy(scfg.first_line_indent_cm) THEN <<>>
                                ELSE <<Cm(scfg.first_line_indent_cm)>>,
          alignment         |-> <<MapGet(ALIGN_MAP, Upper(Chars[Val(scfg.alignment)]), "both")>>,
          keep_with_next    |-> <<scfg.keep_with_next>>,
          page_break_before |-> <<scfg.page_break_before>> ], {})

\* lines 146-151: reads font_element.rFonts and sets its four slots.  The
\* object line 155 hands over is docx_style.font, a docx Font, whose
\* attributes are name, size, bold, italic, color, ...: it has no rFonts
SetFontAllScripts(font_element, font_name) ==
    IF "rFonts" \notin DOMAIN font_element THEN Raises("AttributeError")
    ELSE IF Tag(font_name) # "str" THEN Raises("TypeError")
    ELSE Returns([font_element EXCEPT !.rFonts =
                     [ascii |-> font_name, hAnsi |-> font_name,
                      eastAsia |-> font_name, cs |-> font_name]], {})

HexDigits ==
    { "0", "1", "2", "3", "4", "5", "6", "7", "8", "9",
      "a", "b", "c", "d", "e", "f", "A", "B", "C", "D", "E", "F" }

\* bytes.fromhex(x) returns: x is a string of pairs of hex digits
IsHex(x) ==
    /\ Tag(x) = "str"
    /\ Len(Chars[Val(x)]) % 2 = 0
    /\ \A i \in DOMAIN Chars[Val(x)] : Chars[Val(x)][i] \in HexDigits

\* lines 159-163: bytes.fromhex raises on a malformed string; on a
\* well-formed one font.color.rgb = <bytes> removes the colour the style
\* had and raises ValueError since the value is no RGBColor; both are
\* swallowed
ApplyColor(font, color_hex) ==
    IF Falsy(color_hex) THEN Returns(font, {})
    ELSE IF ~IsHex(color_hex)
    THEN Returns(font, {IF Tag(color_hex) = "str" THEN "ValueError" ELSE "TypeError"})
    ELSE Returns([font EXCEPT !.color = <<>>], {"ValueError"})

\* lines 153-172
ApplyStyleToDocxStyle(docx_style, scfg) ==
    LET named == [docx_style.font EXCEPT !.name = scfg.font_name]
        slots == SetFontAllScripts(named, scfg.font_name)
    IN  IF ~slots.ok THEN slots
        ELSE IF ~IsNumber(scfg.font_size_pt) THEN Raises(LengthError(scfg.font_size_pt))
        ELSE LET sized == [slots.obj EXCEPT !.size = <<Pt(scfg.font_size_pt)>>,
                                            !.bold = <<scfg.bold>>,
                                            !.italic = <<scfg.italic>>]
                 colored == ApplyColor(sized, scfg.color_hex)
                 pf == ParagraphFormatOf(scfg)
             IN  IF ~pf.ok THEN pf
                 ELSE Returns([font |-> colored.obj, pf |-> pf.obj], colored.caught)

\* the styles _apply_styles looks for, in its order, with the field of
\* ReportConfig each takes
StyleTable ==
    << <<"Normal", "normal">>, <<"Title", "title">>,
       <<"Heading 1", "heading1">>, <<"Heading 2", "heading2">>,
       <<"Heading 3", "heading3">>, <<"Caption", "caption">> >>

RECURSIVE ApplyStylesFrom(_, _, _, _)
ApplyStylesFrom(cfg, d, i, swallowed) ==
    IF i > Len(StyleTable) THEN Returns(d, swallowed)
    ELSE LET name == StyleTable[i][1]
         IN  IF name \notin DOMAIN d.styles
             THEN ApplyStylesFrom(cfg, d, i + 1, swallowed)
             ELSE LET r == ApplyStyleToDocxStyle(d.styles[name], cfg[StyleTable[i][2]])
                  IN  IF ~r.ok THEN r
                      ELSE ApplyStylesFrom(cfg, [d EXCEPT !.styles[name] = r.obj],
                                           i + 1, swallowed \cup r.caught)

ApplyStyles(cfg, d) == ApplyStylesFrom(cfg, d, 1, {})

(***************************************************************************)
(* Stage 3: _insert_toc_if_needed (lines 321-338).  The title paragraph    *)
(* is made and styled; then line 333 calls insert_paragraph_after, which   *)
(* a docx Paragraph does not have (it has insert_paragraph_before only),   *)
(* and the AttributeError leaves the stage.                                *)
(***************************************************************************)
InsertTocIfNeeded(cfg, d) ==
    LET tc == cfg.toc
    IN  IF Falsy(tc.insert_toc) THEN Returns(d, {})
        ELSE IF Tag(tc.title_alignment) # "str" THEN Raises("AttributeError")
        ELSE IF ~Falsy(tc.title) /\ ~IsNumber(tc.title_font_size_pt)
        THEN Raises(LengthError(tc.title_font_size_pt))
        ELSE Raises("AttributeError")

(***************************************************************************)
(* Stage 4: _apply_page_numbers (lines 340-378) with                       *)
(* _set_section_page_numbering (lines 199-212).                            *)
(***************************************************************************)
\* int(x) of a number
IntOf(x) ==
    CASE Tag(x) = "int"   -> Val(x)
      [] Tag(x) = "float" -> Val(x) \div Hundred
      [] Tag(x) = "bool"  -> IF Val(x) THEN 1 ELSE 0

\* A numbering that leaves a start value the section had in place.
SetSectionPageNumberingKeep(section, start_at, fmt, restart) ==
    IF Tag(fmt) # "str" THEN Raises("AttributeError")
    ELSE IF restart /\ ~IsNumber(start_at)
    THEN Raises(IF Tag(start_at) = "str" THEN "ValueError" ELSE "TypeError")
    ELSE LET had == IF section.pgNumType = <<>> THEN <<>> ELSE section.pgNumType[1].start
             fmt_val == MapGet(PAGE_FMT_MAP, Upper(Chars[Val(fmt)]), "decimal")
         IN  Returns([section EXCEPT !.pgNumType =
                         << [ fmt   |-> <<fmt_val>>,
                              start |-> IF restart THEN <<NatText(IntOf(start_at))>>
                                        ELSE had ] >>], {})

\* lines 199-212: the pgNumType element is found or made, its format set,
\* its start set to str(int(start_at)) on a restart and removed otherwise
SetSectionPageNumbering(section, start_at, fmt, restart) ==
    IF Tag(fmt) # "str" THEN Raises("AttributeError")
    ELSE IF restart /\ ~IsNumber(start_at)
    THEN Raises(IF Tag(start_at) = "str" THEN "ValueError" ELSE "TypeError")
    ELSE LET fmt_val == MapGet(PAGE_FMT_MAP, Upper(Chars[Val(fmt)]), "decimal")
         IN  Returns([section EXCEPT !.pgNumType =
                         << [ fmt   |-> <<fmt_val>>,
                              start |-> IF restart THEN <<NatText(IntOf(start_at))>>
                                        ELSE <<>> ] >>], {})

\* lines 362-378: the items of the tokens from the i-th on are appended to
\* para
RECURSIVE AddParts(_, _, _, _, _)
AddParts(pn, para, parts, i, swallowed) ==
    IF i > Len(parts) THEN Returns(para, swallowed)
    ELSE IF parts[i] = PAGE
    THEN AddParts(pn, AddSimpleField(para, "PAGE"), parts, i + 1, swallowed)
    ELSE IF parts[i] = NUMPAGES
    THEN AddParts(pn, AddSimpleField(para, "NUMPAGES"), parts, i + 1, swallowed)
    ELSE IF Tag(pn.font_name) \notin {"str", "none"} THEN Raises("TypeError")
    ELSE IF ~IsNumber(pn.font_size_pt) THEN Raises(LengthError(pn.font_size_pt))
    ELSE LET slots == TrySetAllSlots(SetFontName(NoFont, pn.font_name), pn.font_name)
             run == Run(parts[i], slots.obj, <<Pt(pn.font_size_pt)>>)
         IN  AddParts(pn, [para EXCEPT !.items = Append(@, run)], parts, i + 1,
                      swallowed \cup slots.caught)

\* the position suffixes of line 354
SuffixAlign == [LEFT |-> "left", CENTER |-> "center", RIGHT |-> "right"]

\* lines 346-378: the body of the loop for the section of index idx
\* (from 1)
NumberSection(pn, section, idx) ==
    LET restart == ~Falsy(pn.restart_each_section)
        numbered == SetSectionPageNumbering(section, pn.start_at, pn.number_format,
                                            IF idx = 1 THEN TRUE ELSE restart)
    IN  IF ~numbered.ok THEN numbered
        ELSE IF Tag(pn.position) # "str" THEN Raises("AttributeError")
        ELSE LET position == Chars[Val(pn.position)]
                 target_is_footer == StartsWith(position, Chars["FOOTER"], 1)
                 pieces == SplitOnce(position, "_")
             IN  IF Len(pieces) < 2 THEN Raises("IndexError")
                 ELSE IF Tag(pn.template) # "str" THEN Raises("TypeError")
                 ELSE LET alignment == MapGet(SuffixAlign, pieces[2], "center")
                          sec == numbered.obj
                          hf == IF target_is_footer THEN sec.footer ELSE sec.header
                          paragraphs == IF hf = <<>> THEN <<EmptyParagraph>> ELSE hf
                          para == [ClearParagraph(paragraphs[1])
                                      EXCEPT !.pf.alignment = <<alignment>>]
                          filled == AddParts(pn, para, SplitTemplate(Chars[Val(pn.template)]),
                                             1, {})
                      IN  IF ~filled.ok THEN filled
                          ELSE LET after == [paragraphs EXCEPT ![1] = filled.obj]
                               IN  Returns(IF target_is_footer
                                           THEN [sec EXCEPT !.footer = after]
                                           ELSE [sec EXCEPT !.header = after],
                                           filled.caught)

RECURSIVE NumberSectionsFrom(_, _, _, _)
NumberSectionsFrom(pn, d, idx, swallowed) ==
    IF idx > Len(d.sections) THEN Returns(d, swallowed)
    ELSE LET r == NumberSection(pn, d.sections[idx], idx)
         IN  IF ~r.ok THEN r
             ELSE NumberSectionsFrom(pn, [d EXCEPT !.sections[idx] = r.obj], idx + 1,
                                     swallowed \cup r.caught)

ApplyPageNumbers(cfg, d) ==
    IF Falsy(cfg.pagenumber.enabled) THEN Returns(d, {})
    ELSE NumberSectionsFrom(cfg.pagenumber, d, 1, {})

(***************************************************************************)
(* Stages 5 and 6: _force_paragraph_format (lines 258-286) and             *)
(* _force_run_font (lines 288-319) over _iter_all_paragraphs (174-182).    *)
(***************************************************************************)
\* the paragraphs of the cells of a table's rows: cell.paragraphs holds
\* the paragraphs that are children of the cell, none of a table in it
CellParagraphs(tbl) ==
    Flatten([r \in DOMAIN tbl.rows |->
                Flatten([c \in DOMAIN tbl.rows[r] |-> tbl.rows[r][c].paragraphs])])

\* lines 174-182: the paragraphs yielded, in order; doc.tables holds the
\* tables that are children of the body
IterAllParagraphs(d, include_tables) ==
    d.paragraphs \o
        (IF include_tables
         THEN Flatten([t \in DOMAIN d.tables |-> CellParagraphs(d.tables[t])])
         ELSE <<>>)

\* the document with every paragraph _iter_all_paragraphs yields replaced
\* by what stamp holds for it
OnAllParagraphs(d, include_tables, stamp) ==
    LET OnSeq(ps) == [i \in DOMAIN ps |-> stamp[ps[i]]]
        OnCell(cell) == [cell EXCEPT !.paragraphs = OnSeq(cell.paragraphs)]
        OnRow(row) == [c \in DOMAIN row |-> OnCell(row[c])]
        OnTable(tbl) == [tbl EXCEPT !.rows = [r \in DOMAIN tbl.rows |-> OnRow(tbl.rows[r])]]
    IN  [d EXCEPT !.paragraphs = OnSeq(d.paragraphs),
                  !.tables = IF include_tables
                             THEN [t \in DOMAIN d.tables |-> OnTable(d.tables[t])]
                             ELSE d.tables]

\* Bucket with the title tested as the headings and the caption are
BucketTitlePart(p) ==
    LET style_name == Lower(Chars[IF p.style = NoStyle THEN "Normal" ELSE p.style])
    IN  IF Contains(style_name, Chars["heading 1"]) THEN "heading1"
        ELSE IF Contains(style_name, Chars["heading 2"]) THEN "heading2"
        ELSE IF Contains(style_name, Chars["heading 3"]) THEN "heading3"
        ELSE IF Contains(style_name, Chars["title"]) THEN "title"
        ELSE IF Contains(style_name, Chars["caption"]) THEN "caption"
        ELSE "normal"

\* lines 264-277: the field of ReportConfig _force_paragraph_format takes
\* for the paragraph
Bucket(p) ==
    LET style_name == Lower(Chars[IF p.style = NoStyle THEN "Normal" ELSE p.style])
    IN  IF Contains(style_name, Chars["heading 1"]) THEN "heading1"
        ELSE IF Contains(style_name, Chars["heading 2"]) THEN "heading2"
        ELSE IF Contains(style_name, Chars["heading 3"]) THEN "heading3"
        ELSE IF style_name = Chars["title"] THEN "title"
        ELSE IF Contains(style_name, Chars["caption"]) THEN "caption"
        ELSE "normal"

\* lines 279-286 on one paragraph
FormatParagraph(cfg, p) ==
    LET pf == ParagraphFormatOf(cfg[Bucket(p)])
    IN  IF pf.ok THEN Returns([p EXCEPT !.pf = pf.obj], {}) ELSE pf

\* the first outcome of a sequence that raised, if any
FirstRaised(rs) ==
    LET bad == SelectSeq(rs, LAMBDA r : ~r.ok) IN IF bad = <<>> THEN <<>> ELSE <<Head(bad)>>

ForceParagraphFormat(cfg, d) ==
    LET pcfg == cfg.processing
        include_tables == ~Falsy(pcfg.include_tables)
        yielded == IterAllParagraphs(d, include_tables)
        bad == FirstRaised([i \in DOMAIN yielded |-> FormatParagraph(cfg, yielded[i])])
        stamp == [p \in Range(yielded) |-> FormatParagraph(cfg, p).obj]
    IN  IF Falsy(pcfg.force_paragraph_format_everywhere) THEN Returns(d, {})
        ELSE IF bad # <<>> THEN bad[1]
        ELSE Returns(OnAllParagraphs(d, include_tables, stamp), {})

\* lines 310-319 on one run
FontRun(scfg, r) ==
    IF Tag(scfg.font_name) \notin {"str", "none"} THEN Raises("TypeError")
    ELSE LET slots == TrySetAllSlots(SetFontName(r.font, scfg.font_name), scfg.font_name)
         IN  IF ~IsNumber(scfg.font_size_pt) THEN Raises(LengthError(scfg.font_size_pt))
             ELSE Returns([r EXCEPT !.font = slots.obj, !.size = <<Pt(scfg.font_size_pt)>>],
                          slots.caught)

\* lines 294-307: the field of ReportConfig _force_run_font takes for the
\* paragraph
RunFontBucket(p) ==
    LET style_name == Lower(Chars[IF p.style = NoStyle THEN "Normal" ELSE p.style])
    IN  IF Contains(style_name, Chars["heading 1"]) THEN "heading1"
        ELSE IF Contains(style_name, Chars["heading 2"]) THEN "heading2"
        ELSE IF Contains(style_name, Chars["heading 3"]) THEN "heading3"
        ELSE IF style_name = Chars["title"] THEN "title"
        ELSE IF Contains(style_name, Chars["caption"]) THEN "caption"
        ELSE "normal"

\* lines 309-319 on one paragraph
FontParagraph(cfg, p) ==
    LET scfg == cfg[RunFontBucket(p)]
        outcomes == [i \in DOMAIN p.items |->
                        IF p.items[i].kind = "r" THEN FontRun(scfg, p.items[i])
                        ELSE Returns(p.items[i], {})]
        bad == FirstRaised(outcomes)
    IN  IF bad # <<>> THEN bad[1]
        ELSE Returns([p EXCEPT !.items = [i \in DOMAIN outcomes |-> outcomes[i].obj]],
                     UNION {outcomes[i].caught : i \in DOMAIN outcomes})

ForceRunFont(cfg, d) ==
    LET pcfg == cfg.processing
        include_tables == ~Falsy(pcfg.include_tables)
        yielded == IterAllParagraphs(d, include_tables)
        outcomes == [i \in DOMAIN yielded |-> FontParagraph(cfg, yielded[i])]
        bad == FirstRaised(outcomes)
        stamp == [p \in Range(yielded) |-> FontParagraph(cfg, p).obj]
    IN  IF Falsy(pcfg.force_run_font_everywhere) THEN Returns(d, {})
        ELSE IF bad # <<>> THEN bad[1]
        ELSE Returns(OnAllParagraphs(d, include_tables, stamp),
                     UNION {outcomes[i].caught : i \in DOMAIN outcomes})

(***************************************************************************)
(* format_docx_bytes (lines 218-230) as the front end calls it (app.py     *)
(* 152-164): the document is opened, the six stages run in order, the      *)
(* document is saved and its bytes returned.  An exception that leaves a   *)
(* stage leaves format_docx_bytes, and app.py shows it.                    *)
(***************************************************************************)
Stages ==
    <<"page_setup", "styles", "toc", "page_numbers", "paragraph_format", "run_font">>

\* the step after the one named
StepAfter(step) ==
    IF step = Stages[Len(Stages)] THEN "save"
    ELSE Stages[(CHOOSE i \in DOMAIN Stages : Stages[i] = step) + 1]

\* A call sequence that goes on to the next stage after an exception.
RunStageOn(step, r) ==
    /\ fpc = step
    /\ fpc' = StepAfter(step)
    /\ IF r.ok
       THEN /\ doc' = r.obj
            /\ caught' = caught \cup {[stage |-> step, exc |-> e] : e \in r.caught}
            /\ completed' = Append(completed, step)
            /\ UNCHANGED raised
       ELSE /\ raised' = <<[stage |-> step, exc |-> r.exc]>>
            /\ UNCHANGED <<doc, caught, completed>>
    /\ UNCHANGED <<formatterCfg, input_docx_bytes, output_bytes, tvars, mvars, cvars>>

\* one of the calls of lines 221-226 with the outcome r of the stage
RunStage(step, r) ==
    /\ fpc = step
    /\ IF r.ok
       THEN /\ doc' = r.obj
            /\ caught' = caught \cup {[stage |-> step, exc |-> e] : e \in r.caught}
            /\ completed' = Append(completed, step)
            /\ fpc' = StepAfter(step)
            /\ UNCHANGED raised
       ELSE /\ raised' = <<[stage |-> step, exc |-> r.exc]>>
            /\ fpc' = "raised"
            /\ UNCHANGED <<doc, caught, completed>>
    /\ UNCHANGED <<formatterCfg, input_docx_bytes, output_bytes, tvars, mvars, cvars>>

\* line 219: Document(io.BytesIO(input_docx_bytes))
OpenDocument ==
    /\ fpc = "open"
    /\ IF ~input_docx_bytes.package
       THEN /\ raised' = <<[stage |-> "open", exc |-> "PackageNotFoundError"]>>
            /\ fpc' = "raised"
            /\ UNCHANGED doc
       ELSE /\ doc' = input_docx_bytes
            /\ fpc' = Stages[1]
            /\ UNCHANGED raised
    /\ UNCHANGED <<formatterCfg, input_docx_bytes, completed, caught, output_bytes,
                   tvars, mvars, cvars>>

PageSetupStage == RunStage("page_setup", ApplyPageSetup(formatterCfg, doc))

StylesStage == RunStage("styles", ApplyStyles(formatterCfg, doc))

TocStage == RunStage("toc", InsertTocIfNeeded(formatterCfg, doc))

PageNumbersStage == RunStage("page_numbers", ApplyPageNumbers(formatterCfg, doc))

ParagraphFormatStage == RunStage("paragraph_format", ForceParagraphFormat(formatterCfg, doc))

RunFontStage == RunStage("run_font", ForceRunFont(formatterCfg, doc))

\* lines 228-230 and app.py 155-162: the document is saved and the bytes
\* are offered for download
Save ==
    /\ fpc = "save"
    /\ output_bytes' = <<doc>>
    /\ fpc' = "returned"
    /\ UNCHANGED <<formatterCfg, input_docx_bytes, doc, completed, caught, raised,
                   tvars, mvars, cvars>>

\* app.py 163-164: the exception is shown
ShowError ==
    /\ fpc = "raised"
    /\ fpc' = "shown"
    /\ UNCHANGED <<formatterCfg, input_docx_bytes, doc, completed, caught, raised,
                   output_bytes, tvars, mvars, cvars>>

(***************************************************************************)
(* Inputs of format_docx_bytes: documents and configurations.              *)
(***************************************************************************)
\* a paragraph of the uploaded document with direct formatting of its own.
\* A paragraph's style is a style of the document, and "Normal" and
\* "Title" are in doc.styles under these very names: a document whose
\* style table lacks them has no paragraph of these two names.  (Another
\* name may differ from the one doc.styles is asked for: in case, or, for
\* a heading or caption, by the name the file holds.)
DirectParagraph(style) ==
    [ style |-> style,
      pf    |-> [NoFormat EXCEPT !.line_spacing = <<3 * Hundred>>,
                                 !.first_line_indent = <<Cm(PyInt(5))>>,
                                 !.alignment = <<"right">>],
      items |-> << Run(<<"x">>,
                       [ascii |-> PyStr("Calibri"), hAnsi |-> PyStr("Calibri"),
                        eastAsia |-> PyStr("SimSun"), cs |-> PyNone],
                       <<Pt(PyInt(10))>>) >> ]

\* a table of one row: a cell with a paragraph, and a cell with a
\* paragraph and, for n > 1, a table of depth n - 1 nested in it
RECURSIVE TableOfDepth(_)
TableOfDepth(n) ==
    [rows |-> << << [paragraphs |-> <<DirectParagraph("Caption")>>, tables |-> <<>>],
                    [paragraphs |-> <<DirectParagraph("List Paragraph")>>,
                     tables |-> IF n > 1 THEN <<TableOfDepth(n - 1)>> ELSE <<>>] >> >>]

BodyParagraphs ==
    { <<>>,
      <<DirectParagraph("Heading 1"), DirectParagraph(NoStyle)>>,
      <<DirectParagraph("TITLE"), DirectParagraph("Heading 10"),
        DirectParagraph("Subtitle")>>,
      <<DirectParagraph("HEADING 2"), DirectParagraph("Heading 3"),
        DirectParagraph("Table Caption"), DirectParagraph("Title Page")>>,
      <<DirectParagraph("Heading 1 Caption"), DirectParagraph("Caption Heading 3"),
        DirectParagraph("heading 2 heading 1"), DirectParagraph("List Paragraph")>> }

BodyTables == {<<>>} \cup {<<TableOfDepth(n)>> : n \in 1..MaxNesting}

\* the sections of an uploaded document: without page numbering; with a
\* number format and a footer paragraph; with a start value and header
\* paragraphs
SectionKinds ==
    { [pgNumType |-> <<>>, page |-> <<>>, header |-> <<>>, footer |-> <<>>],
      [pgNumType |-> <<[fmt |-> <<"upperRoman">>, start |-> <<>>]>>, page |-> <<>>,
       header |-> <<EmptyParagraph>>, footer |-> <<DirectParagraph(NoStyle)>>],
      [pgNumType |-> <<[fmt |-> <<>>, start |-> << <<"5">> >>]>>, page |-> <<>>,
       header |-> <<DirectParagraph(NoStyle), EmptyParagraph>>, footer |-> <<>>] }

SectionSeqs == UNION {[1..n -> SectionKinds] : n \in 1..MaxSections}

\* a style of the uploaded document's style table
OriginalStyle ==
    [ font |-> [name |-> PyStr("Calibri"), size |-> <<>>, bold |-> <<>>,
                italic |-> <<>>, color |-> <<"0000FF">>],
      pf   |-> NoFormat ]

\* the style tables: one with none of the six names, one with all
StyleTables == {<<>>, [i \in {StyleTable[k][1] : k \in DOMAIN StyleTable} |-> OriginalStyle]}

Document(sections, paragraphs, tables, styles) ==
    [ package |-> TRUE, sections |-> sections, paragraphs |-> paragraphs,
      tables |-> tables, styles |-> styles ]

\* what is not a docx package
NotAPackage ==
    [ package |-> FALSE, sections |-> <<>>, paragraphs |-> <<>>,
      tables |-> <<>>, styles |-> <<>> ]

PlainSection == CHOOSE s \in SectionKinds : s.pgNumType = <<>>

SectionDocuments ==
    {Document(s, <<DirectParagraph(NoStyle)>>, <<>>, <<>>) : s \in SectionSeqs}

BodyDocuments ==
    {Document(<<PlainSection>>, ps, ts, st) :
        ps \in BodyParagraphs, ts \in BodyTables, st \in StyleTables}
        \cup {NotAPackage}

\* cfg with the fields named by the <<record, field, value>> of ch assigned
WithChanges(cfg, ch) ==
    [n \in DOMAIN cfg |->
        [f \in DOMAIN cfg[n] |->
            IF \E c \in ch : c[1] = n /\ c[2] = f
            THEN (CHOOSE c \in ch : c[1] = n /\ c[2] = f)[3]
            ELSE cfg[n][f]]]

\* page-number settings: from the sidebar (app.py 96-106) and from an
\* imported JSON file, which cfg_from_dict takes without a check of types
PageNumberChanges ==
    { {},
      { <<"pagenumber", "restart_each_section", PyBool(TRUE)>>,
        <<"pagenumber", "start_at", PyInt(3)>> },
      { <<"pagenumber", "start_at", PyInt(3)>>,
        <<"pagenumber", "position", PyStr("HEADER_LEFT")>>,
        <<"pagenumber", "number_format", PyStr("roman_upper")>> },
      { <<"pagenumber", "start_at", PyInt(12)>>,
        <<"pagenumber", "position", PyStr("FOOTER_MIDDLE")>>,
        <<"pagenumber", "template", PyStr("")>> },
      { <<"pagenumber", "position", PyStr("FOOTER_RIGHT")>>,
        <<"pagenumber", "template", PyStr("{PAGE}")>> },
      { <<"pagenumber", "enabled", PyBool(FALSE)>> },
      { <<"pagenumber", "position", PyStr("BOTTOM")>> },
      { <<"pagenumber", "font_name", PyNone>> },
      { <<"pagenumber", "font_size_pt", PyStr("big")>> },
      { <<"pagenumber", "start_at", PyNone>> } }

\* other settings: from the sidebar (app.py 48-58, 63-79, 111-125) and
\* from an imported JSON file
OtherChanges ==
    { {},
      { <<"toc", "insert_toc", PyBool(TRUE)>> },
      { <<"processing", "include_tables", PyBool(FALSE)>> },
      { <<"processing", "force_paragraph_format_everywhere", PyBool(FALSE)>>,
        <<"processing", "force_run_font_everywhere", PyBool(FALSE)>> },
      { <<"normal", "font_name", PyNone>> },
      { <<"normal", "font_size_pt", PyStr("big")>> },
      { <<"heading1", "line_spacing", PyStr("wide")>> },
      { <<"pagesetup", "margin_left_cm", PyStr("wide")>> },
      { <<"normal", "color_hex", PyStr("not-a-color")>> },
      { <<"normal", "color_hex", PyStr("FF0000")>> },
      { <<StyleTable[i][2], "space_before_pt", PyInt(i)>> : i \in DOMAIN StyleTable }
        \cup { <<StyleTable[i][2], "font_size_pt", PyInt(10 + i)>> : i \in DOMAIN StyleTable },
      { <<"pagesetup", "paper", PyStr("A4_LANDSCAPE")>>,
        <<"title", "alignment", PyStr("center")>>,
        <<"normal", "font_name", PyStr("Arial")>> } }

\* the calls of format_docx_bytes: <<configuration, uploaded file>>
FormatInputs ==
    {<<WithChanges(ReportConfigDefaults, ch), d>> :
        ch \in PageNumberChanges, d \in SectionDocuments}
    \cup
    {<<WithChanges(ReportConfigDefaults, ch), d>> :
        ch \in OtherChanges, d \in BodyDocuments}

(***************************************************************************)
(* Specifications.  Each one starts the part of the program it is about    *)
(* from its inputs and leaves the other parts idle.                        *)
(***************************************************************************)
IdleTemplate ==
    /\ template = DefaultTemplate
    /\ tokens = <<>>
    /\ tpc = "idle"

IdleConfig ==
    /\ classDefault = ReportConfigDefaults
    /\ session = NewReportConfig
    /\ lastSave = NotDone
    /\ lastLoad = NotDone

IdleFormat ==
    /\ formatterCfg = ReportConfigDefaults
    /\ input_docx_bytes = NotAPackage
    /\ doc = <<>>
    /\ fpc = "idle"
    /\ completed = <<>>
    /\ caught = {}
    /\ raised = <<>>
    /\ output_bytes = <<>>

IdleMerge ==
    /\ mheap = <<>>
    /\ mA = 0
    /\ mB = 0
    /\ mOut = 0
    /\ mIn = <<>>

InitTemplate ==
    /\ template \in Templates
    /\ tokens = <<>>
    /\ tpc = "input"
    /\ IdleMerge
    /\ IdleConfig
    /\ IdleFormat

NextTemplate == Split

SpecTemplate == InitTemplate /\ [][NextTemplate]_vars

InitMerge ==
    /\ \E a \in MergeDicts(MaxDepth), b \in MergeDicts(MaxDepth) :
          LET sa == Store(<<>>, a)
              sb == Store(sa.heap, b)
          IN  /\ mheap = sb.heap
              /\ mA = Val(sa.val)
              /\ mB = Val(sb.val)
              /\ mIn = [a |-> a, b |-> b]
    /\ mOut = 0
    /\ IdleTemplate
    /\ IdleConfig
    /\ IdleFormat

NextMerge == Merge

SpecMerge == InitMerge /\ [][NextMerge]_vars

InitConfig ==
    /\ classDefault = ReportConfigDefaults
    /\ session = NewReportConfig
    /\ lastSave = NotDone
    /\ lastLoad = NotDone
    /\ IdleTemplate
    /\ IdleMerge
    /\ IdleFormat

NextConfig == NewSession \/ Edit \/ Export \/ Import

SpecConfig == InitConfig /\ [][NextConfig]_vars

InitFormat ==
    /\ \E call \in FormatInputs :
          /\ formatterCfg = call[1]
          /\ input_docx_bytes = call[2]
    /\ doc = <<>>
    /\ fpc = "open"
    /\ completed = <<>>
    /\ caught = {}
    /\ raised = <<>>
    /\ output_bytes = <<>>
    /\ IdleTemplate
    /\ IdleMerge
    /\ IdleConfig

NextFormat ==
    \/ OpenDocument
    \/ PageSetupStage
    \/ StylesStage
    \/ TocStage
    \/ PageNumbersStage
    \/ ParagraphFormatStage
    \/ RunFontStage
    \/ Save
    \/ ShowError

SpecFormat == InitFormat /\ [][NextFormat]_vars

(***************************************************************************)
(* Claims about the configuration.                                         *)
(***************************************************************************)
\* the default configuration as formatter.py 39-102 declares it
DeclaredDefaults == PyDict([n \in RecordNames |-> PyDict(ReportConfigDefaults[n])])

\* C1: loading the bytes that save_config_json_bytes made of a
\* configuration c succeeds and yields a configuration equal to c in every
\* field of every record.
C1_RoundTrip ==
    (lastLoad.done /\ lastSave.done /\ lastLoad.data = lastSave.data) =>
        /\ lastLoad.ok
        /\ lastLoad.value = lastSave.src

\* C1 witness: a saved configuration that differs from the defaults, with
\* color_hex = None and an integer start_at, has been loaded back.
C1_Witness ==
    /\ lastLoad.done /\ lastSave.done /\ lastLoad.data = lastSave.data
    /\ lastLoad.ok
    /\ lastSave.src # DeclaredDefaults
    /\ Val(Val(lastSave.src)["title"])["color_hex"] = PyNone
    /\ Tag(Val(Val(lastLoad.value)["pagenumber"])["start_at"]) = "int"
    /\ Val(Val(lastLoad.value)["normal"])["color_hex"] = PyStr("FF0000")

\* d supplies field f of record n
Supplies(d, n, f) ==
    /\ n \in DOMAIN Val(d)
    /\ f \in DOMAIN Val(Val(d)[n])

\* C2: for every partial mapping d, cfg_from_dict(d) is a ReportConfig in
\* which every field of every record holds d's value where d supplies it
\* and the declared default otherwise; cfg_from_dict({}) is the default
\* configuration.
C2_MergeDefaulting ==
    \A d \in PartialUploads :
        (lastLoad.done /\ lastLoad.d = d) =>
            /\ lastLoad.ok
            /\ \A n \in RecordNames :
                  /\ DOMAIN Val(Val(lastLoad.value)[n]) = DOMAIN ReportConfigDefaults[n]
                  /\ \A f \in DOMAIN ReportConfigDefaults[n] :
                        Val(Val(lastLoad.value)[n])[f] =
                            IF Supplies(d, n, f) THEN Val(Val(d)[n])[f]
                            ELSE ReportConfigDefaults[n][f]

\* C10: whatever fields of one ReportConfig() were assigned, a ReportConfig()
\* constructed separately holds the declared defaults, and so does
\* cfg_from_dict({}).
C10_NoSharedState ==
    /\ CfgToDict(classDefault, NewReportConfig) = DeclaredDefaults
    /\ (lastLoad.done /\ lastLoad.d = EmptyDict) => lastLoad.value = DeclaredDefaults

(***************************************************************************)
(* Claims about format_docx_bytes.                                         *)
(***************************************************************************)
\* the stages before the one named
StagesBefore(step) ==
    SubSeq(Stages, 1, (CHOOSE i \in DOMAIN Stages : Stages[i] = step) - 1)

\* C4 as stated: every failure raised inside a stage aborts the operation,
\* so that no output is returned once a failure was raised; output is
\* returned only after the six stages completed in order.
C4_Original ==
    /\ (caught # {} \/ raised # <<>>) => output_bytes = <<>>
    /\ output_bytes # <<>> => completed = Stages

\* C4 amended: every failure that leaves a stage aborts the operation: it
\* reaches the caller, the stages after it do not run and no output is
\* returned; output is returned only after the six stages completed in
\* order; a failure that a stage catches itself does not keep the
\* operation from returning its output.
C4_EscapingFailureAborts ==
    /\ completed = SubSeq(Stages, 1, Len(completed))
    /\ raised # <<>> =>
          /\ output_bytes = <<>>
          /\ fpc \in {"raised", "shown"}
          /\ completed = IF raised[1].stage = "open" THEN <<>>
                         ELSE StagesBefore(raised[1].stage)
    /\ output_bytes # <<>> => (completed = Stages /\ raised = <<>>)
    /\ fpc = "returned" => output_bytes # <<>>

\* C4 witness: the page-number stage raised after the three stages before
\* it completed; the caller was shown the error and got no output.
C4_Witness ==
    /\ fpc = "shown"
    /\ raised # <<>>
    /\ raised[1].stage = "page_numbers"
    /\ completed = <<"page_setup", "styles", "toc">>
    /\ output_bytes = <<>>

\* C5: after page-number insertion with enabled = true the first section
\* restarts at start_at; a later section restarts at start_at if
\* restart_each_section is true and has no restart value otherwise,
\* whatever it had before.
C5_SectionRestart ==
    LET pn == formatterCfg.pagenumber
    IN  ("page_numbers" \in Range(completed) /\ ~Falsy(pn.enabled)) =>
            \A i \in DOMAIN doc.sections :
                LET pg == doc.sections[i].pgNumType
                IN  /\ pg # <<>>
                    /\ IF i = 1 \/ ~Falsy(pn.restart_each_section)
                       THEN /\ pg[1].start # <<>>
                            /\ TextNat(pg[1].start[1]) = Val(pn.start_at)
                       ELSE pg[1].start = <<>>

\* C5 witness: a document of three sections, the second and third with a
\* start value of their own, was numbered with restart_each_section =
\* false and start_at = 3: only the first section holds a start value.
C5_Witness ==
    /\ "page_numbers" \in Range(completed)
    /\ Falsy(formatterCfg.pagenumber.restart_each_section)
    /\ formatterCfg.pagenumber.start_at = PyInt(3)
    /\ Len(doc.sections) = 3
    /\ \A i \in {2, 3} :
          /\ input_docx_bytes.sections[i].pgNumType # <<>>
          /\ input_docx_bytes.sections[i].pgNumType[1].start # <<>>
          /\ doc.sections[i].pgNumType[1].start = <<>>
    /\ doc.sections[1].pgNumType[1].start = << <<"3">> >>

\* the paragraphs of the cells of a table and of the tables nested in them
RECURSIVE CellParagraphsAtAnyDepth(_)
CellParagraphsAtAnyDepth(tbl) ==
    Flatten([r \in DOMAIN tbl.rows |->
        Flatten([c \in DOMAIN tbl.rows[r] |->
            tbl.rows[r][c].paragraphs \o
                Flatten([t \in DOMAIN tbl.rows[r][c].tables |->
                            CellParagraphsAtAnyDepth(tbl.rows[r][c].tables[t])])])])

\* p holds the line spacing, first-line indent and alignment of its
\* bucket's StyleConfig and its runs hold the bucket's font name and size
HoldsBucketFormat(cfg, p) ==
    LET scfg == cfg[Bucket(p)]
    IN  /\ p.pf.line_spacing = <<Hundredths(scfg.line_spacing)>>
        /\ p.pf.first_line_indent = (IF Hundredths(scfg.first_line_indent_cm) = 0 THEN <<>>
                                     ELSE <<Cm(scfg.first_line_indent_cm)>>)
        /\ p.pf.alignment = <<MapGet(ALIGN_MAP, Upper(Chars[Val(scfg.alignment)]), "both")>>
        /\ \A i \in DOMAIN Runs(p) :
              /\ Runs(p)[i].font.ascii = scfg.font_name
              /\ Runs(p)[i].size = <<Pt(scfg.font_size_pt)>>

\* C8: with include_tables and both sweeps enabled, after the sweeps every
\* paragraph of every table cell, at any nesting depth, holds its bucket's
\* line spacing, first-line indent and alignment, and its runs hold the
\* bucket's font name and size.
C8_NestedCells ==
    LET pcfg == formatterCfg.processing
    IN  ( /\ "run_font" \in Range(completed)
          /\ ~Falsy(pcfg.include_tables)
          /\ ~Falsy(pcfg.force_paragraph_format_everywhere)
          /\ ~Falsy(pcfg.force_run_font_everywhere) ) =>
            \A t \in DOMAIN doc.tables :
                \A p \in Range(CellParagraphsAtAnyDepth(doc.tables[t])) :
                    HoldsBucketFormat(formatterCfg, p)

\* C9: with toc.insert_toc true the operation succeeds on any document and
\* its result begins with the title paragraph, the paragraph of the TOC
\* field and an empty paragraph with a page break, followed by the former
\* first paragraph.
C9_TocInserted ==
    LET tc == formatterCfg.toc
    IN  ( /\ ~Falsy(tc.insert_toc)
          /\ input_docx_bytes.package
          /\ fpc \in {"returned", "shown"} ) =>
            /\ output_bytes # <<>>
            /\ LET ps == output_bytes[1].paragraphs
               IN  /\ Len(ps) = Len(input_docx_bytes.paragraphs) + 3
                   /\ Len(Runs(ps[1])) = 1
                   /\ Runs(ps[1])[1].font.ascii = formatterCfg.normal.font_name
                   /\ Runs(ps[1])[1].size = <<Pt(tc.title_font_size_pt)>>
                   /\ ps[1].pf.alignment =
                         <<MapGet(ALIGN_MAP, Upper(Chars[Val(tc.title_alignment)]), "center")>>
                   /\ Len(ps[2].items) = 1
                   /\ ps[2].items[1].kind = "fldSimple"
                   /\ Len(Runs(ps[3])) = 1
                   /\ Runs(ps[3])[1].text = <<>>

\* style application has run: the stage completed or an exception left it
StylesApplied ==
    \/ "styles" \in Range(completed)
    \/ (raised # <<>> /\ raised[1].stage = "styles")

\* x is a string of six hex digits
IsHexRGB(x) ==
    /\ IsHex(x)
    /\ Len(Chars[Val(x)]) = 6

\* C11: after style application, for each of the six named styles the
\* document has: a color_hex of six hex digits is the style's colour; a
\* malformed color_hex leaves the colour the style had and no error is
\* raised; a color_hex of None leaves the colour the style had.
C11_StyleColor ==
    StylesApplied =>
        \A i \in DOMAIN StyleTable :
            LET name == StyleTable[i][1]
                color_hex == formatterCfg[StyleTable[i][2]].color_hex
            IN  name \in DOMAIN input_docx_bytes.styles =>
                    IF IsHexRGB(color_hex)
                    THEN doc.styles[name].font.color = <<Val(color_hex)>>
                    ELSE IF Tag(color_hex) = "none"
                    THEN doc.styles[name].font.color =
                            input_docx_bytes.styles[name].font.color
                    ELSE /\ doc.styles[name].font.color =
                                input_docx_bytes.styles[name].font.color
                         /\ ~(raised # <<>> /\ raised[1].stage = "styles")

\* the buckets' tests as the claim lists them: <<test, literal, bucket>>
BucketRules ==
    << <<"contains", "heading 1", "heading1">>,
       <<"contains", "heading 2", "heading2">>,
       <<"contains", "heading 3", "heading3">>,
       <<"equals", "title", "title">>,
       <<"contains", "caption", "caption">> >>

\* lit is a stretch of name
HasPart(name, lit) ==
    \E i \in 1..Len(name) : \E j \in i..Len(name) : SubSeq(name, i, j) = lit

RuleApplies(rule, name) ==
    IF rule[1] = "equals" THEN name = Chars[rule[2]]
    ELSE HasPart(name, Chars[rule[2]])

\* the bucket of the first test that applies to the lower-cased style name
\* (no style counts as "Normal"), Normal's if none applies
FirstBucket(style) ==
    LET name == Lower(Chars[IF style = NoStyle THEN "Normal" ELSE style])
        hits == {i \in DOMAIN BucketRules : RuleApplies(BucketRules[i], name)}
    IN  IF hits = {} THEN "normal"
        ELSE BucketRules[CHOOSE i \in hits : \A j \in hits : i <= j][3]

\* cfg gives each bucket a space before and a font size of its own, so
\* that a paragraph shows the bucket each sweep selected for it
TellsBucketsApart(cfg) ==
    \A a, b \in StyleNames :
        /\ Tag(cfg[a].space_before_pt) = "int"
        /\ Tag(cfg[a].font_size_pt) = "int"
        /\ a # b => /\ cfg[a].space_before_pt # cfg[b].space_before_pt
                    /\ cfg[a].font_size_pt # cfg[b].font_size_pt

\* C12: for every paragraph style name (no style counts as "Normal") the
\* paragraph-format sweep and the run-font sweep select the same bucket:
\* the first that applies, on the lower-cased name, of: contains
\* "heading 1", contains "heading 2", contains "heading 3", equals
\* "title", contains "caption"; Normal otherwise.  Read off a document
\* formatted with a bucket-telling configuration: after the first sweep
\* each body paragraph holds the space before of that bucket, after the
\* second its runs hold the font size of that bucket.
C12_BucketClassification ==
    LET pcfg == formatterCfg.processing
    IN  TellsBucketsApart(formatterCfg) =>
            /\ ( /\ "paragraph_format" \in Range(completed)
                  /\ ~Falsy(pcfg.force_paragraph_format_everywhere) ) =>
                    \A i \in DOMAIN doc.paragraphs :
                        LET b == FirstBucket(input_docx_bytes.paragraphs[i].style)
                        IN  doc.paragraphs[i].pf.space_before =
                                <<Pt(formatterCfg[b].space_before_pt)>>
            /\ ( /\ "run_font" \in Range(completed)
                  /\ ~Falsy(pcfg.force_run_font_everywhere) ) =>
                    \A i \in DOMAIN doc.paragraphs :
                        LET b == FirstBucket(input_docx_bytes.paragraphs[i].style)
                        IN  \A k \in DOMAIN Runs(doc.paragraphs[i]) :
                                Runs(doc.paragraphs[i])[k].size =
                                    <<Pt(formatterCfg[b].font_size_pt)>>

\* C12 witness: a document with a "Heading 10" and a "Subtitle" paragraph
\* went through both sweeps under a bucket-telling configuration: the
\* first holds Heading1's space before and font size, the second Normal's.
C12_Witness ==
    /\ TellsBucketsApart(formatterCfg)
    /\ "run_font" \in Range(completed)
    /\ \E i, j \in DOMAIN doc.paragraphs :
          /\ input_docx_bytes.paragraphs[i].style = "Heading 10"
          /\ input_docx_bytes.paragraphs[j].style = "Subtitle"
          /\ doc.paragraphs[i].pf.space_before = <<Pt(formatterCfg.heading1.space_before_pt)>>
          /\ doc.paragraphs[j].pf.space_before = <<Pt(formatterCfg.normal.space_before_pt)>>
          /\ Runs(doc.paragraphs[i]) # <<>>
          /\ Runs(doc.paragraphs[i])[1].size = <<Pt(formatterCfg.heading1.font_size_pt)>>
          /\ Runs(doc.paragraphs[j]) # <<>>
          /\ Runs(doc.paragraphs[j])[1].size = <<Pt(formatterCfg.normal.font_size_pt)>>

\* the paragraphs page-number insertion targets in a section: the
\* footer's when position starts with "FOOTER", the header's otherwise
TargetParagraphs(pn, section) ==
    LET position == Chars[Val(pn.position)]
    IN  IF Len(position) >= 6 /\ SubSeq(position, 1, 6) = Chars["FOOTER"]
        THEN section.footer ELSE section.header

\* what follows the first "_" of position is suffix
HasSuffix(position, suffix) ==
    \E n \in DOMAIN position :
        /\ position[n] = "_"
        /\ \A m \in 1..(n - 1) : position[m] # "_"
        /\ SubSeq(position, n + 1, Len(position)) = suffix

\* the item is the token's: a simple field for a placeholder, a text run
\* for a literal
ItemOfToken(item, token) ==
    IF token = PAGE THEN item.kind = "fldSimple" /\ item.instr = "PAGE"
    ELSE IF token = NUMPAGES THEN item.kind = "fldSimple" /\ item.instr = "NUMPAGES"
    ELSE item.kind = "r" /\ item.text = token

\* C13: after page-number insertion with enabled = true, in every section
\* the target paragraph (the first of the footer when position starts with
\* "FOOTER", of the header otherwise; added if there was none) holds the
\* items of the tokenized template in order, a PAGE field per {PAGE}, a
\* NUMPAGES field per {NUMPAGES}, a text run per literal, and nothing it
\* held before; its alignment is the one of the position suffix; page-number
\* insertion applied once more leaves the paragraph as it is.
C13_PageNumberParagraph ==
    LET pn == formatterCfg.pagenumber
    IN  ("page_numbers" \in Range(completed) /\ ~Falsy(pn.enabled)) =>
            LET parts == SplitTemplate(Chars[Val(pn.template)])
                again == ApplyPageNumbers(formatterCfg, doc)
            IN  /\ again.ok
                /\ \A i \in DOMAIN doc.sections :
                      LET before == TargetParagraphs(pn, input_docx_bytes.sections[i])
                          after == TargetParagraphs(pn, doc.sections[i])
                      IN  /\ Len(after) = IF before = <<>> THEN 1 ELSE Len(before)
                          /\ Len(after[1].items) = Len(parts)
                          /\ \A k \in DOMAIN parts : ItemOfToken(after[1].items[k], parts[k])
                          /\ \A a \in {"LEFT", "CENTER", "RIGHT"} :
                                HasSuffix(Chars[Val(pn.position)], Chars[a]) =>
                                    after[1].pf.alignment = <<ALIGN_MAP[a]>>
                          /\ TargetParagraphs(pn, again.obj.sections[i])[1] = after[1]

\* C13 witness: a document of several sections was numbered with the
\* default template into the footer; the footer of one section held a
\* paragraph with a run of its own and another section had no footer
\* paragraph; both now hold the text run, the PAGE field, the text run and
\* the NUMPAGES field, centred.
C13_Witness ==
    LET pn == formatterCfg.pagenumber
    IN  /\ "page_numbers" \in Range(completed)
        /\ ~Falsy(pn.enabled)
        /\ pn.position = PyStr("FOOTER_CENTER")
        /\ Chars[Val(pn.template)] = DefaultTemplate
        /\ \E i, j \in DOMAIN doc.sections :
              /\ input_docx_bytes.sections[i].footer # <<>>
              /\ input_docx_bytes.sections[i].footer[1].items # <<>>
              /\ input_docx_bytes.sections[j].footer = <<>>
              /\ \A n \in {i, j} :
                    LET items == doc.sections[n].footer[1].items
                    IN  /\ Len(items) = 4
                        /\ items[1].kind = "r"
                        /\ items[2].kind = "fldSimple" /\ items[2].instr = "PAGE"
                        /\ items[3].kind = "r"
                        /\ items[4].kind = "fldSimple" /\ items[4].instr = "NUMPAGES"
                        /\ doc.sections[n].footer[1].pf.alignment = <<"center">>

(***************************************************************************)
(* Claims about deep_merge.                                                *)
(***************************************************************************)
\* r is the merge of a and b as the contract states it
RECURSIVE IsMergeOf(_, _, _)
IsMergeOf(r, a, b) ==
    /\ IsDict(r)
    /\ DOMAIN Val(r) = DOMAIN Val(a) \cup DOMAIN Val(b)
    /\ \A k \in DOMAIN Val(b) :
          IF k \in DOMAIN Val(a) /\ IsDict(Val(a)[k]) /\ IsDict(Val(b)[k])
          THEN IsMergeOf(Val(r)[k], Val(a)[k], Val(b)[k])
          ELSE Val(r)[k] = Val(b)[k]
    /\ \A k \in DOMAIN Val(a) \ DOMAIN Val(b) : Val(r)[k] = Val(a)[k]

\* C3: the result's keys are the union of the keys of a and b; a key of b
\* holds the recursive merge when both sides are mappings and b's value
\* otherwise; a key of a alone keeps a's value; a and b are not modified.
C3_DeepMerge ==
    mOut # 0 =>
        /\ IsMergeOf(Load(mheap, Ref(mOut)), mIn.a, mIn.b)
        /\ Load(mheap, Ref(mA)) = mIn.a
        /\ Load(mheap, Ref(mB)) = mIn.b
        /\ mOut \notin {mA, mB}

\* C3 witness: a merge that recursed into a nested mapping under k1, took
\* k2 from b where a holds a list, and left a as it was.
C3_Witness ==
    /\ mOut # 0
    /\ "k1" \in DOMAIN Val(mIn.a) /\ "k1" \in DOMAIN Val(mIn.b)
    /\ IsDict(Val(mIn.a)["k1"]) /\ IsDict(Val(mIn.b)["k1"])
    /\ DOMAIN Val(Val(mIn.a)["k1"]) # DOMAIN Val(Val(mIn.b)["k1"])
    /\ "k2" \in DOMAIN Val(mIn.a) /\ Tag(Val(mIn.a)["k2"]) = "list"
    /\ "k2" \in DOMAIN Val(mIn.b) /\ Tag(Val(mIn.b)["k2"]) = "str"
    /\ Load(mheap, Ref(mOut)) # mIn.a
    /\ Load(mheap, Ref(mA)) = mIn.a

(***************************************************************************)
(* Claims about _split_template.                                           *)
(***************************************************************************)
IsPlaceholder(tok) == tok \in {PAGE, NUMPAGES}

IsCleanLiteral(tok) ==
    /\ tok # <<>>
    /\ ~Contains(tok, PAGE)
    /\ ~Contains(tok, NUMPAGES)

ExampleTokens ==
    << <<"P", "a", "g", "e", " ">>, PAGE, <<" ", "o", "f", " ">>, NUMPAGES,
       <<" ", "-", " ", "e", "n", "d">> >>

\* C6: the tokens concatenate to the template; every token is "{PAGE}",
\* "{NUMPAGES}" or a non-empty literal holding no placeholder; no two
\* literals are adjacent; the spec's example yields its five tokens.
C6_SplitTokens ==
    tpc = "split" =>
        /\ Flatten(tokens) = template
        /\ \A k \in 1..Len(tokens) :
               IsPlaceholder(tokens[k]) \/ IsCleanLiteral(tokens[k])
        /\ \A k \in 1..(Len(tokens) - 1) :
               IsPlaceholder(tokens[k]) \/ IsPlaceholder(tokens[k + 1])
        /\ (template = ExampleTemplate => tokens = ExampleTokens)

\* C6 witness: the example template has been split into five tokens, three
\* of them literals.
C6_Witness ==
    /\ tpc = "split"
    /\ template = ExampleTemplate
    /\ Len(tokens) = 5
    /\ ~IsPlaceholder(tokens[1]) /\ IsPlaceholder(tokens[2])

NoPlaceholder(t) == ~Contains(t, PAGE) /\ ~Contains(t, NUMPAGES)

\* C7 as stated: every template without a placeholder, the empty one
\* included, yields exactly one literal token equal to the template.
C7_Original ==
    (tpc = "split" /\ NoPlaceholder(template)) => tokens = <<template>>

\* C7 amended: a non-empty template without a placeholder yields exactly
\* one literal token equal to the template; the empty template yields the
\* empty token list.
C7_SingleLiteral ==
    (tpc = "split" /\ NoPlaceholder(template)) =>
        tokens = IF template = <<>> THEN <<>> ELSE <<template>>

\* C7 witness: a template made of a partial placeholder and an unmatched
\* brace has been split.
C7_Witness ==
    /\ tpc = "split"
    /\ template = <<"{", "P", "A", "G", "E", "{">>
    /\ tokens = <<template>>

=============================================================================
